---- MODULE Spec2Model ----
(***************************************************************************)
(* A model of AutoRAG: the configuration loader (utils/config.py), the     *)
(* optimize command (cli.py), the vector store wrapper                     *)
(* (rag/vector_store.py) and the RAG pipeline (rag/pipeline.py).           *)
(*                                                                         *)
(* Strings are sequences of one-character strings, so that str.strip(),    *)
(* truthiness and slicing are computed and not assumed.  A YAML scalar is   *)
(* a record [k, s]: k = "absent" (the key is not in the mapping),          *)
(* k = "null" (YAML null, Python None) or k = "str" with the text s.       *)
(***************************************************************************)
EXTENDS Integers, Sequences, FiniteSets, TLC

VARIABLES
    file,           \* the configuration file load_config is called on
    loaded,         \* what load_config did: not called, a Config, or the error raised
    experiments,    \* optimize: the --experiments option (NoInt when not given)
    pc,             \* optimize: the stage the command is at
    exit_code,      \* optimize: -1 while running, then the process exit code
    calls,          \* the calls made so far, in order
    failed,         \* optimize: what raised, and the length of calls when it did
    num_experiments,\* optimize: the number of experiments displayed
    doc_count,      \* optimize: connector.count_documents()
    documents,      \* the documents fetched / handed to upsert_documents
    index,          \* the vector index: id -> stored vector
    vector_count,   \* optimize: total_vector_count read before indexing
    skip_indexing,  \* optimize: the local skip_indexing ("unbound" until assigned)
    result,         \* what pipeline.query / search returned
    embeddings,     \* upsert_documents: the embeddings argument
    requests,       \* upsert_documents: the batches sent with index.upsert, in order
    result_data,    \* fetch_documents: the rows result.data holds
    retrieved_docs  \* query: what vector_store.search returned

cfgvars == <<file, loaded>>
runvars == <<experiments, pc, exit_code, failed, num_experiments, doc_count,
             vector_count, skip_indexing>>
storevars == <<calls, documents, index, result, embeddings, requests>>
localvars == <<result_data, retrieved_docs>>
vars == <<cfgvars, runvars, storevars, localvars>>

-----------------------------------------------------------------------------
(* YAML scalars and Python strings *)

Absent == [k |-> "absent", s |-> <<>>]
Null == [k |-> "null", s |-> <<>>]
Str(s) == [k |-> "str", s |-> s]

\* YAML integers of the optimization block
NoInt == [k |-> "absent", n |-> 0]
IntVal(n) == [k |-> "int", n |-> n]

Whitespace == {" ", "\t", "\n"}

RECURSIVE lstrip(_)
lstrip(s) == IF s /= <<>> /\ Head(s) \in Whitespace THEN lstrip(Tail(s)) ELSE s

RECURSIVE rstrip(_)
rstrip(s) ==
    IF s /= <<>> /\ s[Len(s)] \in Whitespace THEN rstrip(SubSeq(s, 1, Len(s) - 1)) ELSE s

\* str.strip()
strip(s) == rstrip(lstrip(s))

\* Python's `not v` for an Optional[str]
Falsy(v) == v.k = "null" \/ (v.k = "str" /\ v.s = <<>>)

SUPABASE == <<"s", "u", "p", "a", "b", "a", "s", "e">>
MONGODB == <<"m", "o", "n", "g", "o", "d", "b">>
POSTGRESQL == <<"p", "o", "s", "t", "g", "r", "e", "s", "q", "l">>
MYSQL == <<"m", "y", "s", "q", "l">>

-----------------------------------------------------------------------------
(* utils/config.py: the pydantic models.  A validator is modelled by the    *)
(* record [ok, value]: ok = FALSE when it raises, value what it returns.    *)

DatabaseTypes == {SUPABASE, MONGODB, POSTGRESQL}

\* type: Literal["supabase", "mongodb", "postgresql"], required
TypeField(raw) == [ok |-> raw.k = "str" /\ raw.s \in DatabaseTypes, value |-> raw]

\* info.data.get("type"): the validated type, None when type did not validate
InfoDataType(raw) == IF TypeField(raw).ok THEN raw.s ELSE <<>>

validate_supabase_url(v, type) == [ok |-> ~(type = SUPABASE /\ Falsy(v)), value |-> v]

validate_supabase_key(v, type) == [ok |-> ~(type = SUPABASE /\ Falsy(v)), value |-> v]

validate_mongodb_connection(v, type) == [ok |-> ~(type = MONGODB /\ Falsy(v)), value |-> v]

validate_postgres_host(v, type) == [ok |-> ~(type = POSTGRESQL /\ Falsy(v)), value |-> v]

\* A field declared `name: Optional[str] = default`, with the outcome of its
\* field_validator: the default is taken as it is when the key is absent
\* (field validators do not run on defaults), the validator runs on any
\* value that is given, None included.
OptionalField(raw, default, validated) ==
    IF raw.k = "absent" THEN [ok |-> TRUE, value |-> default] ELSE validated

\* A field declared Optional[str] with no validator
PlainField(raw, default) == OptionalField(raw, default, [ok |-> TRUE, value |-> raw])

CONTENT == <<"c", "o", "n", "t", "e", "n", "t">>
ID == <<"i", "d">>

DatabaseFields(raw) ==
    LET t == InfoDataType(raw.type) IN
    [type |-> TypeField(raw.type),
     url |-> OptionalField(raw.url, Null, validate_supabase_url(raw.url, t)),
     key |-> OptionalField(raw.key, Null, validate_supabase_key(raw.key, t)),
     table |-> PlainField(raw.table, Null),
     connection_string |->
        OptionalField(raw.connection_string, Null,
                      validate_mongodb_connection(raw.connection_string, t)),
     host |-> OptionalField(raw.host, Null, validate_postgres_host(raw.host, t)),
     text_column |-> PlainField(raw.text_column, Str(CONTENT)),
     id_column |-> PlainField(raw.id_column, Str(ID)),
     user |-> PlainField(raw.user, Null),
     password |-> PlainField(raw.password, Null)]

\* DatabaseConfig(**raw): fails when the block is missing or any field fails
DatabaseConfig(raw) ==
    LET f == DatabaseFields(raw) IN
    [ok |-> raw.present /\ \A n \in DOMAIN f : f[n].ok,
     value |-> [n \in DOMAIN f |-> f[n].value]]

\* mutant: the validator tests `not v` alone
validate_groq_key_no_strip(v) == [ok |-> v.s /= <<>>, value |-> v]

\* mutant: the validator returns the stripped key
validate_pinecone_key_stripping(v) ==
    [ok |-> ~(v.s = <<>> \/ strip(v.s) = <<>>), value |-> Str(strip(v.s))]

\* `not v or v.strip() == ""` raises
validate_groq_key(v) == [ok |-> ~(v.s = <<>> \/ strip(v.s) = <<>>), value |-> v]

validate_pinecone_key(v) == [ok |-> ~(v.s = <<>> \/ strip(v.s) = <<>>), value |-> v]

\* A field declared `name: str` with no default: the key must be there
\* and hold a string; the validator runs on it.
RequiredStr(raw, validated) ==
    IF raw.k = "str" THEN validated ELSE [ok |-> FALSE, value |-> raw]

AUTORAG == <<"a", "u", "t", "o", "r", "a", "g">>

APIKeysConfig(raw) ==
    LET f == [groq |-> RequiredStr(raw.groq, validate_groq_key(raw.groq)),
              pinecone |-> RequiredStr(raw.pinecone, validate_pinecone_key(raw.pinecone)),
              pinecone_index |-> IF raw.pinecone_index.k = "absent"
                                 THEN [ok |-> TRUE, value |-> Str(AUTORAG)]
                                 ELSE [ok |-> raw.pinecone_index.k = "str",
                                       value |-> raw.pinecone_index]] IN
    [ok |-> raw.present /\ \A n \in DOMAIN f : f[n].ok,
     value |-> [n \in DOMAIN f |-> f[n].value]]

\* mutant: the field is declared without le
RangedIntNoUpper(raw, d, lo, hi) ==
    IF raw.k = "absent" THEN [ok |-> TRUE, value |-> d]
    ELSE [ok |-> lo <= raw.n, value |-> raw.n]

\* An int field with Field(default=d, ge=lo, le=hi)
RangedInt(raw, d, lo, hi) ==
    IF raw.k = "absent" THEN [ok |-> TRUE, value |-> d]
    ELSE [ok |-> lo <= raw.n /\ raw.n <= hi, value |-> raw.n]

OptimizationConfig(raw) ==
    LET f == [num_experiments |-> RangedInt(raw.num_experiments, 20, 1, 100),
              test_questions |-> RangedInt(raw.test_questions, 50, 10, 500)] IN
    [ok |-> raw.present /\ \A n \in DOMAIN f : f[n].ok,
     value |-> [n \in DOMAIN f |-> f[n].value]]

\* Config(**config_data) for a mapping with string keys
Config(data) ==
    LET db == DatabaseConfig(data.database)
        api == APIKeysConfig(data.api_keys)
        opt == OptimizationConfig(data.optimization) IN
    [ok |-> db.ok /\ api.ok /\ opt.ok,
     value |-> [database |-> db.value, api_keys |-> api.value, optimization |-> opt.value]]

-----------------------------------------------------------------------------
(* The configuration files load_config is tried on *)

AbsentDatabase ==
    [present |-> FALSE, type |-> Absent, url |-> Absent, key |-> Absent, table |-> Absent,
     connection_string |-> Absent, host |-> Absent, text_column |-> Absent,
     id_column |-> Absent, user |-> Absent, password |-> Absent]

AbsentAPIKeys ==
    [present |-> FALSE, groq |-> Absent, pinecone |-> Absent, pinecone_index |-> Absent]

AbsentOptimization ==
    [present |-> FALSE, num_experiments |-> NoInt, test_questions |-> NoInt]

U == <<"u">>
K == <<"k">>
H == <<"h">>

TypeValues == {Str(SUPABASE), Str(MONGODB), Str(POSTGRESQL), Str(MYSQL)}
UrlValues == {Absent, Null, Str(<<>>), Str(U)}
KeyValues == {Absent, Null, Str(<<>>), Str(K)}
HostValues == {Absent, Str(<<>>), Str(H)}
CredentialValues == {Absent, Str(U)}
ApiKeyValues == {Absent, Str(<<>>), Str(<<" ">>), Str(<<" ", "k">>), Str(K)}
NumExperimentsValues == {NoInt, IntVal(0), IntVal(1), IntVal(100), IntVal(101)}
TestQuestionsValues == {NoInt, IntVal(9), IntVal(10), IntVal(500), IntVal(501)}

SuppliedDatabases(types, urls, keys, hosts, users, passwords) ==
    {[present |-> TRUE, type |-> t, url |-> u, key |-> k, table |-> Absent,
      connection_string |-> Absent, host |-> h, text_column |-> Absent,
      id_column |-> Absent, user |-> c, password |-> p] :
        t \in types, u \in urls, k \in keys, h \in hosts, c \in users, p \in passwords}

SuppliedAPIKeys(groqs, pinecones) ==
    {[present |-> TRUE, groq |-> g, pinecone |-> p, pinecone_index |-> Absent] :
        g \in groqs, p \in pinecones}

SuppliedOptimizations(nums, questions) ==
    {[present |-> TRUE, num_experiments |-> n, test_questions |-> q] :
        n \in nums, q \in questions}

DatabaseBlocks ==
    {AbsentDatabase} \cup
    SuppliedDatabases(TypeValues, UrlValues, KeyValues, HostValues, CredentialValues,
                      CredentialValues)

APIKeysBlocks == {AbsentAPIKeys} \cup SuppliedAPIKeys(ApiKeyValues, ApiKeyValues)

\* each field takes all its values while the other is absent or at a bound
OptimizationBlocks ==
    {AbsentOptimization}
    \cup SuppliedOptimizations(NumExperimentsValues, {NoInt, IntVal(10)})
    \cup SuppliedOptimizations({NoInt, IntVal(1)}, TestQuestionsValues)

NoData ==
    [database |-> AbsentDatabase, api_keys |-> AbsentAPIKeys,
     optimization |-> AbsentOptimization]

\* What is at config_path: nothing, something open() cannot read, text that
\* is not YAML, an empty document, a YAML document that is no mapping, or a
\* mapping with the three blocks.
OtherKinds == {"missing", "unreadable", "badyaml", "empty", "nonmapping"}

Files(databases, api_keys, optimizations) ==
    {[kind |-> k, data |-> NoData] : k \in OtherKinds} \cup
    {[kind |-> "mapping", data |-> [database |-> d, api_keys |-> a, optimization |-> o]] :
        d \in databases, a \in api_keys, o \in optimizations}

-----------------------------------------------------------------------------
(* utils/config.py: load_config *)

NoConfig == Config(NoData).value

Raised(e) == [status |-> e, config |-> NoConfig]

\* mutant: Config(**config_data) stands outside the try, so unpacking None
\* or a list raises TypeError
load_config_unwrapped(f) ==
    IF f.kind = "missing" THEN Raised("FileNotFoundError")
    ELSE IF f.kind = "unreadable" THEN Raised("OSError")
    ELSE IF f.kind = "badyaml" THEN Raised("YAMLError")
    ELSE IF f.kind \in {"empty", "nonmapping"} THEN Raised("TypeError")
    ELSE IF Config(f.data).ok THEN [status |-> "Config", config |-> Config(f.data).value]
    ELSE Raised("ValueError")

load_config(f) ==
    IF f.kind = "missing" THEN Raised("FileNotFoundError")
    ELSE IF f.kind = "unreadable" THEN Raised("OSError")
    ELSE IF f.kind = "badyaml" THEN Raised("YAMLError")
    ELSE IF f.kind \in {"empty", "nonmapping"} THEN Raised("ValueError")
    ELSE IF Config(f.data).ok THEN [status |-> "Config", config |-> Config(f.data).value]
    ELSE Raised("ValueError")

NotCalled == [status |-> "not called", config |-> NoConfig]

-----------------------------------------------------------------------------
(* Python helpers *)

Min(a, b) == IF a <= b THEN a ELSE b

\* s[i:j] for 0 <= i <= j
Slice(s, i, j) == SubSeq(s, i + 1, Min(j, Len(s)))

\* range(i, stop, step) as a list
RECURSIVE Range(_, _, _)
Range(i, stop, step) == IF i >= stop THEN <<>> ELSE <<i>> \o Range(i + step, stop, step)

Digit == <<"0", "1", "2", "3", "4", "5", "6", "7", "8", "9">>

\* str(n) for an int n >= 0
RECURSIVE IntToStr(_)
IntToStr(n) == IF n < 10 THEN <<Digit[n + 1]>> ELSE IntToStr(n \div 10) \o <<Digit[(n % 10) + 1]>>

\* str(v) for an int or a str
PyStr(v) == IF v.k = "int" THEN IntToStr(v.n) ELSE v.s

\* {**a, **b}: the keys of both, b's value where both have the key
Merge(a, b) == [k \in DOMAIN a \cup DOMAIN b |-> IF k \in DOMAIN b THEN b[k] ELSE a[k]]

\* {k: v for k, v in d.items() if k not in keys}
Without(d, keys) == [k \in DOMAIN d \ keys |-> d[k]]

EmptyDict == [k \in {} |-> <<>>]

-----------------------------------------------------------------------------
(* rag/vector_store.py: VectorStore *)

TEXT == "text"

\* lines 61-70: the vector prepared for one document
Vector(doc, embedding) ==
    [id |-> PyStr(doc.id),
     values |-> embedding,
     metadata |-> Merge([k \in {TEXT} |-> Slice(doc.text, 0, 1000)], doc.metadata)]

Vectors(docs, embs) == [i \in 1..Len(docs) |-> Vector(docs[i], embs[i])]

batch_size == 100

\* mutant: the slice ends one vector early
UpsertBatchesShort(vectors) ==
    LET starts == Range(0, Len(vectors), batch_size) IN
    [b \in 1..Len(starts) |-> Slice(vectors, starts[b], starts[b] + batch_size - 1)]

\* lines 73-76: the requests of the upsert loop, in the order they are sent
UpsertBatches(vectors) ==
    LET starts == Range(0, Len(vectors), batch_size) IN
    [b \in 1..Len(starts) |-> Slice(vectors, starts[b], starts[b] + batch_size)]

\* index.upsert(vectors=batch): each vector replaces what the index holds under its id
Upserted(idx, batch) ==
    LET last(id) == CHOOSE i \in 1..Len(batch) :
                        /\ batch[i].id = id
                        /\ \A j \in (i + 1)..Len(batch) : batch[j].id /= id IN
    Merge(idx, [id \in {batch[i].id : i \in 1..Len(batch)} |-> batch[last(id)]])

\* lines 97-104: one formatted match
Match(m) ==
    [id |-> m.id,
     score |-> m.score,
     text |-> IF TEXT \in DOMAIN m.metadata THEN m.metadata[TEXT] ELSE <<>>,
     metadata |-> Without(m.metadata, {TEXT})]

-----------------------------------------------------------------------------
(* database/supabase.py: SupabaseConnector.fetch_documents.  A row is the   *)
(* value of its id column, the value of its text column and the dict of    *)
(* its other columns.                                                      *)

\* Python's `not v` for None, an int or a str
PyFalsy(v) ==
    v.k = "null" \/ (v.k = "int" /\ v.n = 0) \/ (v.k = "str" /\ v.s = <<>>)

\* lines 80-81: the row is skipped
Skipped(row) == PyFalsy(row.id) \/ PyFalsy(row.text)

\* lines 87-91
Document(row) == [id |-> Str(PyStr(row.id)), text |-> PyStr(row.text), metadata |-> row.rest]

\* lines 69-93, for the rows result.data holds
fetch_documents(rows) ==
    LET kept == SelectSeq(rows, LAMBDA row : ~Skipped(row)) IN
    [i \in 1..Len(kept) |-> Document(kept[i])]

-----------------------------------------------------------------------------
(* rag/pipeline.py and rag/embeddings.py *)

\* the vector of a text: what matters of it is that it is one per text
embed_text(text) == <<Len(text)>>

embed_batch(texts) == [i \in 1..Len(texts) |-> embed_text(texts[i])]

\* index_documents: the calls it makes for these documents, in order
IndexingCalls(docs) ==
    IF docs = <<>> THEN <<>>
    ELSE <<"embed_batch">> \o
         [b \in 1..Len(UpsertBatches(docs)) |-> "upsert"]

\* the index after the first n requests of index_documents(docs) went through
IndexedPrefix(idx, docs, n) ==
    LET vectors == Vectors(docs, embed_batch([i \in 1..Len(docs) |-> docs[i].text]))
        sent == UpsertBatches(vectors)
        F[b \in 0..n] == IF b = 0 THEN idx ELSE Upserted(F[b - 1], sent[b]) IN
    F[n]

top_k == 3

\* n elements of S, in some order
RECURSIVE Some(_, _)
Some(S, n) ==
    IF n = 0 \/ S = {} THEN <<>>
    ELSE LET x == CHOOSE x \in S : TRUE IN <<x>> \o Some(S \ {x}, n - 1)

\* index.query(...).matches: at most top_k of the stored vectors
QueryMatches(idx) ==
    LET ids == Some(DOMAIN idx, top_k) IN
    {[i \in 1..m |-> [id |-> ids[i], score |-> 1, metadata |-> idx[ids[i]].metadata]] :
        m \in 0..Len(ids)}

\* VectorStore.search: the formatted matches
search(matches) == [i \in 1..Len(matches) |-> Match(matches[i])]

NoResult == [answer |-> "", sources |-> <<>>, retrieved_docs |-> <<>>]

-----------------------------------------------------------------------------
(* cli.py: optimize *)

MaxDocCount == 150

DocCounts == {0, 1, 2, MaxDocCount}

ExperimentsValues == {NoInt, IntVal(0), IntVal(1), IntVal(150)}

\* the database, api_keys and optimization blocks optimize is run on
OptimizeDatabases ==
    SuppliedDatabases({Str(SUPABASE), Str(POSTGRESQL)}, {Str(U)}, {Absent, Str(K)},
                      {Absent}, {Absent}, {Absent})

OptimizeAPIKeys == SuppliedAPIKeys({Str(<<>>), Str(K)}, {Str(K)})

OptimizeOptimizations == SuppliedOptimizations({NoInt, IntVal(1), IntVal(101)}, {NoInt})

\* the rows the table returns for .limit(limit): the first `bad` have no text
Row(i, good) ==
    [id |-> IntVal(i), text |-> IF good THEN Str(<<"t">>) ELSE Null, rest |-> EmptyDict]

RowLists(limit) ==
    {[i \in 1..limit |-> Row(i, i > bad)] : bad \in {0, 1, limit} \cap (0..limit)}

\* the vectors the index may hold before the run
StoredVector(id) == [id |-> id, values |-> <<1>>, metadata |-> [k \in {TEXT} |-> <<"o">>]]

InitialIndexes ==
    {[id \in ids |-> StoredVector(id)] : ids \in SUBSET {<<"1">>, <<"o">>}}

NoFailure == [what |-> "", at |-> 0]

\* mutant: the except clause of the fetch stage raises typer.Exit() with no code
ExitCodeDefault(stage) == IF stage = "fetch" THEN 0 ELSE 1

\* `raise typer.Exit(code=1)` of the stage's except clause
ExitCode(stage) == 1

Exit(stage, what, made) ==
    /\ calls' = calls \o made
    /\ failed' = [what |-> what, at |-> Len(calls) + Len(made)]
    /\ pc' = "exit"
    /\ exit_code' = ExitCode(stage)

\* a stage whose calls `planned` are made in order: the j-th raises
Raises(stage, planned, j) == Exit(stage, planned[j], SubSeq(planned, 1, j))

\* line 61
Effective(e, configured) == IF e.k = "int" /\ e.n /= 0 THEN e.n ELSE configured

Init ==
    /\ file \in Files(OptimizeDatabases, OptimizeAPIKeys, OptimizeOptimizations)
    /\ loaded = NotCalled
    /\ experiments \in ExperimentsValues
    /\ pc = "load"
    /\ exit_code = -1
    /\ calls = <<>>
    /\ failed = NoFailure
    /\ num_experiments = 0
    /\ doc_count = 0
    /\ documents = <<>>
    /\ index \in InitialIndexes
    /\ vector_count = 0
    /\ skip_indexing = "unbound"
    /\ result = NoResult
    /\ embeddings = <<>>
    /\ requests = <<>>
    /\ result_data = <<>>
    /\ retrieved_docs = <<>>

\* lines 46-61
OptLoadConfig ==
    /\ pc = "load"
    /\ loaded' = load_config(file)
    /\ IF loaded'.status = "Config"
       THEN /\ calls' = calls \o <<"load_config">>
            /\ num_experiments' =
                    Effective(experiments, loaded'.config.optimization.num_experiments)
            /\ pc' = "connect"
            /\ UNCHANGED <<exit_code, failed>>
       ELSE /\ Exit("load", "load_config", <<"load_config">>)
            /\ UNCHANGED num_experiments
    /\ UNCHANGED <<file, experiments, doc_count, documents, index, vector_count,
                   skip_indexing, result, embeddings, requests, localvars>>

\* mutant: an empty table is not noticed
NoDocumentsNever(count) == FALSE

\* line 112
NoDocuments(count) == count = 0

\* lines 93-119
OptConnect ==
    /\ pc = "connect"
    /\ LET planned == <<"create_client", "test_connection", "count_documents">> IN
       IF loaded.config.database.type /= Str(SUPABASE)
       THEN Exit("connect", "unsupported database type", <<>>) /\ UNCHANGED doc_count
       ELSE \/ \E j \in 1..3 : Raises("connect", planned, j) /\ UNCHANGED doc_count
            \/ \E n \in DocCounts :
                /\ doc_count' = n
                /\ IF NoDocuments(n)
                   THEN Exit("connect", "no documents", planned)
                   ELSE /\ calls' = calls \o planned
                        /\ pc' = "fetch"
                        /\ UNCHANGED <<exit_code, failed>>
    /\ UNCHANGED <<cfgvars, experiments, num_experiments, documents, index, vector_count,
                   skip_indexing, result, embeddings, requests, localvars>>

\* mutant: every counted document is fetched
fetch_limit_unbounded(count) == count

\* line 126
fetch_limit(count) == Min(count, 100)

\* lines 124-144
OptFetch ==
    /\ pc = "fetch"
    /\ \/ Raises("fetch", <<"fetch_documents">>, 1) /\ UNCHANGED <<documents, result_data>>
       \/ \E rows \in RowLists(fetch_limit(doc_count)) :
            /\ result_data' = rows
            /\ documents' = fetch_documents(rows)
            /\ calls' = calls \o <<"fetch_documents">>
            /\ pc' = "init"
            /\ UNCHANGED <<exit_code, failed>>
    /\ UNCHANGED <<cfgvars, experiments, num_experiments, doc_count, index, vector_count,
                   skip_indexing, result, embeddings, requests, retrieved_docs>>

\* lines 151-167
OptInit ==
    /\ pc = "init"
    /\ LET planned == <<"RAGPipeline", "get_stats">> IN
       \/ \E j \in 1..2 : Raises("init", planned, j) /\ UNCHANGED vector_count
       \/ /\ vector_count' = Cardinality(DOMAIN index)
          /\ calls' = calls \o planned
          /\ pc' = "index"
          /\ UNCHANGED <<exit_code, failed>>
    /\ UNCHANGED <<cfgvars, experiments, num_experiments, doc_count, documents, index,
                   skip_indexing, result, embeddings, requests, localvars>>

\* mutant: the documents are indexed whatever skip_indexing holds
NotSkipIndexingAlways(skip) == TRUE

\* line 187: `not skip_indexing`, for a skip_indexing that was assigned
NotSkipIndexing(skip) == skip = "False"

\* lines 183-199 once skip_indexing is assigned `skip`, the stage having made
\* the calls `made` before
IndexStage(skip, made) ==
    /\ skip_indexing' = skip
    /\ IF NotSkipIndexing(skip)
       THEN LET planned == IndexingCalls(documents) \o <<"get_stats">>
                batches == Len(UpsertBatches(documents))
                \* the requests that went through when the j-th call raises
                through(j) == IF j <= 2 THEN 0 ELSE Min(j - 2, batches) IN
            \/ \E j \in 1..Len(planned) :
                    /\ Exit("index", planned[j], made \o SubSeq(planned, 1, j))
                    /\ index' = IndexedPrefix(index, documents, through(j))
            \/ /\ index' = IndexedPrefix(index, documents, batches)
               /\ calls' = calls \o made \o planned
               /\ pc' = "query"
               /\ UNCHANGED <<exit_code, failed>>
       ELSE /\ calls' = calls \o made
            /\ pc' = "query"
            /\ UNCHANGED <<index, exit_code, failed>>

\* lines 172-199, the index already holds vectors
OptIndexExisting ==
    /\ pc = "index" /\ vector_count > 0
    /\ \/ Raises("index", <<"confirm">>, 1) /\ UNCHANGED <<index, skip_indexing>>
       \/ \* reindex = True, clear_index raises
          Raises("index", <<"confirm", "delete_all">>, 2) /\ UNCHANGED <<index, skip_indexing>>
       \/ \* reindex = True: the index is cleared, skip_indexing is never
          \* assigned and `if not skip_indexing` raises UnboundLocalError
          /\ index' = EmptyDict
          /\ Exit("index", "UnboundLocalError", <<"confirm", "delete_all">>)
          /\ UNCHANGED skip_indexing
       \/ \* reindex = False
          IndexStage("True", <<"confirm">>)
    /\ UNCHANGED <<cfgvars, experiments, num_experiments, doc_count, documents,
                   vector_count, result, embeddings, requests, localvars>>

\* lines 172-199, the index is empty
OptIndexNew ==
    /\ pc = "index" /\ vector_count = 0
    /\ IndexStage("False", <<>>)
    /\ UNCHANGED <<cfgvars, experiments, num_experiments, doc_count, documents,
                   vector_count, result, embeddings, requests, localvars>>

DOTS == <<".", ".", ".">>

\* pipeline.py lines 96-103
Sources(retrieved) ==
    [i \in 1..Len(retrieved) |->
        [id |-> retrieved[i].id, score |-> retrieved[i].score,
         text |-> Slice(retrieved[i].text, 0, 200) \o DOTS]]

\* pipeline.py lines 59-109: the result for what the search returned
QueryResult(retrieved) ==
    IF retrieved = <<>>
    THEN [answer |-> "No relevant documents found in the database.",
          sources |-> <<>>, retrieved_docs |-> <<>>]
    ELSE [answer |-> "chat completion", sources |-> Sources(retrieved),
          retrieved_docs |-> retrieved]

\* mutant: the prompt is built and the LLM called whatever the search returned
QueryCallsAlways(retrieved) ==
    <<"embed_text", "search", "build_context", "chat_completion">>

\* pipeline.py lines 76-93: the calls query makes for what the search returned
QueryCalls(retrieved) ==
    <<"embed_text", "search">> \o
    (IF retrieved = <<>> THEN <<>> ELSE <<"build_context", "chat_completion">>)

\* lines 204-233
OptQuery ==
    /\ pc = "query"
    /\ \/ /\ \E j \in 1..2 : Raises("query", QueryCalls(<<>>), j)
          /\ UNCHANGED <<result, retrieved_docs>>
       \/ \E ms \in QueryMatches(index) :
            LET retrieved == search(ms) IN
            /\ retrieved_docs' = retrieved
            /\ \/ /\ retrieved /= <<>>
                  /\ Raises("query", QueryCalls(retrieved), 4)
                  /\ UNCHANGED result
               \/ /\ result' = QueryResult(retrieved)
                  /\ calls' = calls \o QueryCalls(retrieved)
                  /\ pc' = "done"
                  /\ exit_code' = 0
                  /\ UNCHANGED failed
    /\ UNCHANGED <<cfgvars, experiments, num_experiments, doc_count, documents, index,
                   vector_count, skip_indexing, embeddings, requests, result_data>>

Next ==
    \/ OptLoadConfig
    \/ OptConnect
    \/ OptFetch
    \/ OptInit
    \/ OptIndexExisting
    \/ OptIndexNew
    \/ OptQuery

Spec == Init /\ [][Next]_vars

-----------------------------------------------------------------------------
(* load_config on its own *)

\* the variables of a specification that does not run optimize
NoRun ==
    /\ experiments = NoInt
    /\ exit_code = -1
    /\ failed = NoFailure
    /\ num_experiments = 0
    /\ doc_count = 0
    /\ vector_count = 0
    /\ skip_indexing = "unbound"

InitConfig ==
    /\ file \in Files(DatabaseBlocks, APIKeysBlocks, OptimizationBlocks)
    /\ loaded = NotCalled
    /\ NoRun
    /\ pc = "lib"
    /\ calls = <<>>
    /\ documents = <<>>
    /\ index = EmptyDict
    /\ result = NoResult
    /\ embeddings = <<>>
    /\ requests = <<>>
    /\ result_data = <<>>
    /\ retrieved_docs = <<>>

LoadConfig ==
    /\ loaded = NotCalled
    /\ loaded' = load_config(file)
    /\ UNCHANGED <<file, runvars, storevars, localvars>>

NextConfig == LoadConfig

SpecConfig == InitConfig /\ [][NextConfig]_vars

-----------------------------------------------------------------------------
(* VectorStore.upsert_documents and VectorStore.search on their own *)

MaxDocs == 201

\* the text 0, 1, ..., n - 1 in one-character strings
Text(n) == [i \in 1..n |-> Digit[(i % 10) + 1]]

Plain(i) == [id |-> IntVal(i), text |-> Text(2), metadata |-> EmptyDict]

\* n documents that differ in their ids
PlainLists == {[i \in 1..n |-> Plain(i)] : n \in 0..MaxDocs}

TextLengths == {0, 999, 1000, 1001}

Metadatas ==
    LET title == [k \in {"title"} |-> <<"T">>]
        text == [k \in {TEXT} |-> <<"z">>] IN
    {EmptyDict, title, text, Merge(title, text)}

\* one or two documents of any text length and metadata
Detailed(id) == {[id |-> id, text |-> Text(n), metadata |-> md] :
                    n \in TextLengths, md \in Metadatas}

DetailedLists ==
    {<<d>> : d \in Detailed(Str(<<"a">>))} \cup
    {<<d, e>> : d \in Detailed(Str(<<"a">>)), e \in Detailed(IntVal(1))}

\* embeddings lists of the documents' length, one shorter and one longer
EmbeddingsFor(docs) ==
    {[i \in 1..n |-> <<i>>] : n \in {Len(docs) - 1, Len(docs), Len(docs) + 1} \ {-1}}

InitStore ==
    /\ file = [kind |-> "missing", data |-> NoData]
    /\ loaded = NotCalled
    /\ NoRun
    /\ pc = "upsert"
    /\ calls = <<>>
    /\ documents \in PlainLists \cup DetailedLists
    /\ embeddings \in EmbeddingsFor(documents)
    /\ index \in InitialIndexes
    /\ requests = <<>>
    /\ result = NoResult
    /\ result_data = <<>>
    /\ retrieved_docs = <<>>

\* mutant: only too few embeddings are refused
MismatchShort(docs, embs) == Len(docs) > Len(embs)

\* vector_store.py line 57
Mismatch(docs, embs) == Len(docs) /= Len(embs)

\* vector_store.py lines 57-70, and the loop of lines 74-76 when it has nothing to send
UpsertPrepare ==
    /\ pc = "upsert"
    /\ IF Mismatch(documents, embeddings)
       THEN pc' = "raised" /\ failed' = [what |-> "ValueError", at |-> Len(calls)]
       ELSE /\ pc' = IF UpsertBatches(Vectors(documents, embeddings)) = <<>>
                     THEN "stored" ELSE "send"
            /\ UNCHANGED failed
    /\ UNCHANGED <<cfgvars, experiments, exit_code, num_experiments, doc_count,
                   vector_count, skip_indexing, storevars, localvars>>

\* vector_store.py lines 74-76: one turn of the loop
UpsertSend ==
    /\ pc = "send"
    /\ LET batches == UpsertBatches(Vectors(documents, embeddings))
           batch == batches[Len(requests) + 1] IN
       /\ calls' = Append(calls, "upsert")
       /\ \/ \* index.upsert raises
             /\ pc' = "raised"
             /\ failed' = [what |-> "upsert", at |-> Len(calls) + 1]
             /\ UNCHANGED <<requests, index>>
          \/ /\ requests' = Append(requests, batch)
             /\ index' = Upserted(index, batch)
             /\ pc' = IF Len(requests') = Len(batches) THEN "stored" ELSE "send"
             /\ UNCHANGED failed
    /\ UNCHANGED <<cfgvars, experiments, exit_code, num_experiments, doc_count,
                   vector_count, skip_indexing, documents, result, embeddings,
                   localvars>>

\* vector_store.py lines 78-106
Search ==
    /\ pc = "stored"
    /\ calls' = Append(calls, "search")
    /\ \E ms \in QueryMatches(index) :
            /\ retrieved_docs' = search(ms)
            /\ result' = [answer |-> "", sources |-> <<>>, retrieved_docs |-> search(ms)]
    /\ pc' = "searched"
    /\ UNCHANGED <<cfgvars, experiments, exit_code, failed, num_experiments, doc_count,
                   vector_count, skip_indexing, documents, index, embeddings, requests,
                   result_data>>

NextStore == UpsertPrepare \/ UpsertSend \/ Search

SpecStore == InitStore /\ [][NextStore]_vars

-----------------------------------------------------------------------------
(* SupabaseConnector.fetch_documents on its own *)

MaxRows == 3

\* the value of the id column: NULL (or no such column), 0, 7
IdValues == {Null, IntVal(0), IntVal(7)}

\* the value of the text column: NULL (or no such column), '', 't'
TextValues == {Null, Str(<<>>), Str(<<"t">>)}

\* the other columns of a row
RestValues == {EmptyDict, [k \in {"title"} |-> <<"T">>]}

TableRows == [id : IdValues, text : TextValues, rest : RestValues]

\* what result.data may hold: up to n rows
RowsUpTo(n) == UNION {[1..len -> TableRows] : len \in 0..n}

InitFetch ==
    /\ file = [kind |-> "missing", data |-> NoData]
    /\ loaded = NotCalled
    /\ NoRun
    /\ pc = "fetch_documents"
    /\ calls = <<>>
    /\ documents = <<>>
    /\ embeddings = <<>>
    /\ index = EmptyDict
    /\ requests = <<>>
    /\ result = NoResult
    /\ result_data \in RowsUpTo(MaxRows)
    /\ retrieved_docs = <<>>

\* supabase.py lines 69-93
FetchDocuments ==
    /\ pc = "fetch_documents"
    /\ documents' = fetch_documents(result_data)
    /\ calls' = Append(calls, "fetch_documents")
    /\ pc' = "fetched"
    /\ UNCHANGED <<cfgvars, experiments, exit_code, failed, num_experiments, doc_count,
                   vector_count, skip_indexing, index, result, embeddings, requests,
                   localvars>>

NextFetch == FetchDocuments

SpecFetch == InitFetch /\ [][NextFetch]_vars

-----------------------------------------------------------------------------
(* Properties of load_config, checked under SpecConfig *)

Called == loaded.status /= "not called"

Database == file.data.database
ApiKeys == file.data.api_keys
Optimization == file.data.optimization

\* the key is not in the block, or is null, or is the empty string
Missing(v) == v.k \in {"absent", "null"} \/ (v.k = "str" /\ v.s = <<>>)

\* a string made of whitespace only (the empty string included)
Blank(v) == v.k = "str" /\ \A i \in 1..Len(v.s) : v.s[i] \in Whitespace

IsType(t) == file.kind = "mapping" /\ Database.present /\ Database.type = Str(t)

\* C1: a database block of type 'supabase' whose url or key is absent, null
\* or empty never loads: load_config returns no Config for it.
C1_SupabaseWithoutUrlOrKeyRejected ==
    (Called /\ IsType(SUPABASE) /\ (Missing(Database.url) \/ Missing(Database.key)))
        => loaded.status /= "Config"

\* C2: an api_keys block whose groq or pinecone key is empty or whitespace
\* only makes load_config raise ValueError, and no Config that load_config
\* returns holds an empty or whitespace-only groq or pinecone key.
C2_BlankApiKeyRejected ==
    /\ (Called /\ file.kind = "mapping" /\ ApiKeys.present
            /\ (Blank(ApiKeys.groq) \/ Blank(ApiKeys.pinecone)))
        => loaded.status = "ValueError"
    /\ loaded.status = "Config"
        => ~Blank(loaded.config.api_keys.groq) /\ ~Blank(loaded.config.api_keys.pinecone)

\* C2 witness: the one fault of the file is a whitespace-only groq key, and
\* load_config has raised
C2_Witness ==
    /\ loaded.status = "ValueError"
    /\ IsType(SUPABASE) /\ DatabaseConfig(Database).ok /\ OptimizationConfig(Optimization).ok
    /\ ApiKeys.groq = Str(<<" ">>) /\ ApiKeys.pinecone = Str(K)

\* the fields of the returned Config equal the values the file gives
Given(raw, got) == raw.k = "absent" \/ got = raw
GivenInt(raw, got) == raw.k = "absent" \/ got = raw.n

FieldsEqualInput ==
    /\ \A n \in DOMAIN Database \ {"present"} :
            Given(Database[n], loaded.config.database[n])
    /\ \A n \in DOMAIN ApiKeys \ {"present"} :
            Given(ApiKeys[n], loaded.config.api_keys[n])
    /\ \A n \in DOMAIN Optimization \ {"present"} :
            GivenInt(Optimization[n], loaded.config.optimization[n])

InRange(raw, lo, hi) == raw.k = "absent" \/ (lo <= raw.n /\ raw.n <= hi)

PopulatedSupabase ==
    /\ IsType(SUPABASE) /\ ~Missing(Database.url) /\ ~Missing(Database.key)
    /\ ApiKeys.present /\ Optimization.present
    /\ InRange(Optimization.num_experiments, 1, 100)
    /\ InRange(Optimization.test_questions, 10, 500)

\* C3 as stated: a supabase config with non-empty url and key, non-empty
\* groq and pinecone keys and optimization values in range loads, and the
\* Config's fields equal the input.
C3_PopulatedSupabaseAccepted_Original ==
    (Called /\ PopulatedSupabase /\ ~Missing(ApiKeys.groq) /\ ~Missing(ApiKeys.pinecone))
        => (loaded.status = "Config" /\ FieldsEqualInput)

\* C3 amended: the same, for groq and pinecone keys that hold at least one
\* character that is not whitespace.
C3_PopulatedSupabaseAccepted ==
    (Called /\ PopulatedSupabase
        /\ ApiKeys.groq.k = "str" /\ ~Blank(ApiKeys.groq)
        /\ ApiKeys.pinecone.k = "str" /\ ~Blank(ApiKeys.pinecone))
        => (loaded.status = "Config" /\ FieldsEqualInput)

\* C3 witness: such a file, with a key that starts with a space, has loaded
C3_Witness ==
    /\ loaded.status = "Config" /\ PopulatedSupabase
    /\ ApiKeys.groq = Str(<<" ", "k">>) /\ ApiKeys.pinecone = Str(K)
    /\ Optimization.num_experiments = IntVal(100)

\* C4: a database block of type 'postgresql' that lacks host, user or
\* password never loads.
C4_PostgresWithoutHostOrCredentialsRejected ==
    (Called /\ IsType(POSTGRESQL)
        /\ (Missing(Database.host) \/ Missing(Database.user) \/ Missing(Database.password)))
        => loaded.status /= "Config"

\* C11: an optimization block with num_experiments outside 1..100 or
\* test_questions outside 10..500 makes load_config raise ValueError; every
\* Config that load_config returns has both inside their ranges, and has 20
\* and 50 where the file omits them.
C11_OptimizationRangeChecked ==
    /\ (Called /\ file.kind = "mapping" /\ Optimization.present
            /\ (~InRange(Optimization.num_experiments, 1, 100)
                \/ ~InRange(Optimization.test_questions, 10, 500)))
        => loaded.status = "ValueError"
    /\ loaded.status = "Config" =>
        /\ 1 <= loaded.config.optimization.num_experiments
        /\ loaded.config.optimization.num_experiments <= 100
        /\ 10 <= loaded.config.optimization.test_questions
        /\ loaded.config.optimization.test_questions <= 500
        /\ Optimization.num_experiments = NoInt
                => loaded.config.optimization.num_experiments = 20
        /\ Optimization.test_questions = NoInt
                => loaded.config.optimization.test_questions = 50

\* C11 witness: the one fault of the file is test_questions = 501, and
\* load_config has raised
C11_Witness ==
    /\ loaded.status = "ValueError"
    /\ IsType(SUPABASE) /\ DatabaseConfig(Database).ok /\ APIKeysConfig(ApiKeys).ok
    /\ Optimization.present
    /\ Optimization.num_experiments = NoInt /\ Optimization.test_questions = IntVal(501)

-----------------------------------------------------------------------------
(* Properties of optimize, checked under Spec *)

\* C5: once a stage of optimize has raised, the command has exit code 1, is
\* at no stage any more, and no call was made after the one that raised;
\* a run that ends with exit code 0 had no stage raise.
C5_FailureEndsRun ==
    /\ failed.what /= "" => (exit_code = 1 /\ pc = "exit" /\ Len(calls) = failed.at)
    /\ exit_code = 0 => (failed.what = "" /\ pc = "done")
    /\ exit_code = -1 => failed.what = ""

\* C5 witness: the second upsert-stage call (the upsert request) has raised
C5_Witness == failed.what = "upsert" /\ exit_code = 1 /\ calls[Len(calls)] = "upsert"

\* the steps of the pipeline, in the order of the claim
StepOrder ==
    <<"load_config", "fetch_documents", "embed_batch", "upsert", "embed_text", "search",
      "build_context", "chat_completion">>

IsStep(c) == \E r \in 1..Len(StepOrder) : StepOrder[r] = c

Rank(c) == CHOOSE r \in 1..Len(StepOrder) : StepOrder[r] = c

Steps == SelectSeq(calls, IsStep)

Did(c) == \E i \in 1..Len(calls) : calls[i] = c

\* C6 as stated: a run that reaches the success message has performed the
\* eight steps, each once, in the fixed order.
C6_LinearOrder_Original == exit_code = 0 => Steps = StepOrder

\* C6 amended: the steps a run performs occur in the fixed order, none more
\* than once; a run that reaches the success message has loaded the
\* config, fetched rows, embedded the query and searched, has embedded and
\* upserted documents exactly when indexing was not skipped and a document
\* was fetched, and has assembled a prompt and called the LLM exactly when
\* the search returned a match.
C6_LinearOrder ==
    /\ \A i \in 1..(Len(Steps) - 1) : Rank(Steps[i]) < Rank(Steps[i + 1])
    /\ exit_code = 0 =>
        /\ Did("load_config") /\ Did("fetch_documents") /\ Did("embed_text") /\ Did("search")
        /\ Did("embed_batch") <=> (skip_indexing = "False" /\ documents /= <<>>)
        /\ Did("upsert") <=> Did("embed_batch")
        /\ Did("build_context") <=> result.retrieved_docs /= <<>>
        /\ Did("chat_completion") <=> Did("build_context")

\* C6 witness: a run over 100 fetched documents reached the success message
\* having performed all eight steps
C6_Witness == exit_code = 0 /\ Steps = StepOrder /\ Len(documents) = 100

\* C9: load_config raises FileNotFoundError for a missing path, YAMLError
\* for invalid YAML and ValueError for an empty file, a document that is no
\* mapping and a mapping that does not validate; it returns a Config only
\* for a mapping that validates; and after each of these errors optimize has
\* exit code 1 and has made no call but load_config.
C9_LoadConfigErrorKinds ==
    loaded.status /= "not called" =>
        /\ file.kind = "missing" => loaded.status = "FileNotFoundError"
        /\ file.kind = "badyaml" => loaded.status = "YAMLError"
        /\ file.kind \in {"empty", "nonmapping"} => loaded.status = "ValueError"
        /\ (file.kind = "mapping" /\ ~Config(file.data).ok) => loaded.status = "ValueError"
        /\ loaded.status = "Config" => (file.kind = "mapping" /\ Config(file.data).ok)
        /\ loaded.status \in {"FileNotFoundError", "YAMLError", "ValueError"} =>
                (exit_code = 1 /\ calls = <<"load_config">>)

\* C9 witness: optimize was run on an empty file
C9_Witness == file.kind = "empty" /\ loaded.status = "ValueError" /\ exit_code = 1

\* C10: when --experiments is given, the number of experiments the run
\* displays is the option's value; otherwise it is the configured one.
C10_ExperimentsOverrides ==
    loaded.status = "Config" =>
        num_experiments = IF experiments.k = "int" THEN experiments.n
                          ELSE loaded.config.optimization.num_experiments

\* the calls optimize makes outside its own process
External ==
    {"load_config", "create_client", "test_connection", "count_documents",
     "fetch_documents", "RAGPipeline", "get_stats", "confirm", "delete_all",
     "embed_batch", "upsert", "embed_text", "search", "chat_completion"}

Count(c) == Len(SelectSeq(calls, LAMBDA x : x = c))

\* C14: a run whose index held vectors and whose user confirmed re-indexing
\* (the index was cleared) and in which no external call failed ends with
\* exit code 0, having embedded and upserted the fetched documents and run
\* the test query.
C14_ReindexCompletes ==
    (pc \in {"done", "exit"} /\ Did("delete_all") /\ failed.what \notin External) =>
        /\ exit_code = 0
        /\ documents /= <<>> => (Did("embed_batch") /\ Did("upsert"))
        /\ Did("search")

\* C15: once the user has declined re-indexing, the run has sent no delete
\* and no upsert request and embedded no documents, the index holds what it
\* held, the run is at the test query or past it, and it can only fail in a
\* call of the query; when it ends successfully it has searched the stored
\* vectors.  No step of a run that neither indexes nor clears changes the
\* index.
C15_DeclineLeavesIndex ==
    /\ [](skip_indexing = "True" =>
            /\ ~Did("delete_all") /\ ~Did("upsert") /\ ~Did("embed_batch")
            /\ requests = <<>>
            /\ vector_count > 0 /\ Cardinality(DOMAIN index) = vector_count
            /\ index \in InitialIndexes
            /\ pc \in {"query", "done", "exit"}
            /\ pc = "exit" => failed.what \in {"embed_text", "search", "chat_completion"}
            /\ pc = "done" =>
                /\ Did("embed_text") /\ Did("search")
                /\ \A i \in 1..Len(retrieved_docs) : retrieved_docs[i].id \in DOMAIN index)
    /\ [][(skip_indexing' /= "False" /\ ~Did("delete_all")') => index' = index]_vars

\* C15 witness: the user declined and the test query found the stored vectors
C15_Witness ==
    /\ skip_indexing = "True" /\ exit_code = 0 /\ retrieved_docs /= <<>>
    /\ calls[Len(calls)] = "chat_completion"

\* the calls that build the pipeline or reach the vector store or the LLM
PipelineCalls ==
    {"RAGPipeline", "get_stats", "delete_all", "embed_batch", "upsert", "embed_text",
     "search", "build_context", "chat_completion"}

\* C16: the pipeline is built and the vector store and the LLM are reached
\* only for a supabase database that counted at least one document; a run
\* on another database type ends with exit code 1 having made no call after
\* load_config, and a run that counted 0 documents ends with exit code 1
\* having neither fetched documents nor built the pipeline.
C16_PipelineOnlyWithDocuments ==
    /\ (\E c \in PipelineCalls : Did(c)) =>
            (loaded.config.database.type = Str(SUPABASE) /\ doc_count > 0)
    /\ Did("fetch_documents") =>
            (loaded.config.database.type = Str(SUPABASE) /\ doc_count > 0)
    /\ (loaded.status = "Config" /\ loaded.config.database.type /= Str(SUPABASE)
            /\ pc /= "connect") =>
            (pc = "exit" /\ exit_code = 1 /\ calls = <<"load_config">>)
    /\ (Did("count_documents") /\ failed.what /= "count_documents" /\ doc_count = 0) =>
            /\ pc = "exit" /\ exit_code = 1 /\ failed.what = "no documents"
            /\ calls = <<"load_config", "create_client", "test_connection",
                         "count_documents">>

\* C16 witness: the table counted 0 documents and the run has ended
C16_Witness ==
    /\ failed.what = "no documents" /\ exit_code = 1 /\ doc_count = 0
    /\ index /= EmptyDict

\* C17: the LLM is called at most once, and only after a search that
\* returned a match; a query whose search returned nothing returns the fixed
\* answer with no sources and no retrieved documents; a query whose search
\* returned matches has called the LLM once and returns the matches and one
\* source per match, in the order of the matches.
C17_LLMOnlyWithMatches ==
    /\ Count("chat_completion") <= 1
    /\ Did("chat_completion") => (Did("search") /\ retrieved_docs /= <<>>)
    /\ (pc = "done" /\ retrieved_docs = <<>>) =>
            /\ result.answer = "No relevant documents found in the database."
            /\ result.sources = <<>> /\ result.retrieved_docs = <<>>
            /\ Count("chat_completion") = 0
    /\ (pc = "done" /\ retrieved_docs /= <<>>) =>
            /\ Count("chat_completion") = 1
            /\ result.retrieved_docs = retrieved_docs
            /\ Len(result.sources) = Len(retrieved_docs)
            /\ \A i \in 1..Len(retrieved_docs) :
                /\ result.sources[i].id = retrieved_docs[i].id
                /\ result.sources[i].score = retrieved_docs[i].score

\* C17 witness: the search returned nothing and the query has returned
C17_Witness ==
    /\ pc = "done" /\ Did("search") /\ retrieved_docs = <<>> /\ index /= EmptyDict
    /\ result.answer = "No relevant documents found in the database."

-----------------------------------------------------------------------------
(* Properties of the vector store, checked under SpecStore *)

Returned == pc \in {"stored", "searched"}

\* C7: upsert_documents on n documents sends ceil(n/100) requests, each of
\* at most 100 vectors and all but the last of exactly 100, and the
\* requests laid end to end are the documents' vectors in document order;
\* the requests sent so far are always a prefix of these.
C7_FixedSizeChunks ==
    LET n == Len(documents)
        vectors == Vectors(documents, embeddings) IN
    /\ \A r \in 1..Len(requests) :
        /\ Len(requests[r]) <= 100
        /\ r < Len(requests) => Len(requests[r]) = 100
        /\ \A j \in 1..Len(requests[r]) :
            /\ (r - 1) * 100 + j <= n
            /\ requests[r][j] = vectors[(r - 1) * 100 + j]
    /\ Returned =>
        /\ Len(requests) = (n + 99) \div 100
        /\ n > 0 => (Len(requests) - 1) * 100 + Len(requests[Len(requests)]) = n

\* C7 witness: upsert_documents returned after three requests for 201 documents
C7_Witness == pc = "stored" /\ Len(documents) = 201 /\ Len(requests) = 3

\* C8: every match that search returns for a document stored by
\* upsert_documents has as 'text' the first 1000 characters of the
\* document's text and as 'metadata' the document's metadata.
C8_StoredDocumentComesBack ==
    pc = "searched" =>
        \A i \in 1..Len(result.retrieved_docs) : \A d \in 1..Len(documents) :
            result.retrieved_docs[i].id = PyStr(documents[d].id) =>
                /\ result.retrieved_docs[i].text =
                        [c \in 1..Min(1000, Len(documents[d].text)) |-> documents[d].text[c]]
                /\ result.retrieved_docs[i].metadata = documents[d].metadata

\* C12: upsert_documents called with documents and embeddings of different
\* lengths raises ValueError, has sent no upsert request, and no step of it
\* changes the index.
C12_MismatchRaises ==
    /\ []((Len(documents) /= Len(embeddings) /\ pc /= "upsert") =>
            (pc = "raised" /\ failed.what = "ValueError" /\ requests = <<>>
                /\ ~Did("upsert")))
    /\ [][Len(documents) /= Len(embeddings) => index' = index]_vars

\* C12 witness: the call with two documents and three embeddings has raised
\* on an index that holds vectors
C12_Witness ==
    /\ pc = "raised" /\ failed.what = "ValueError"
    /\ Len(documents) = 2 /\ Len(embeddings) = 3 /\ index /= EmptyDict

-----------------------------------------------------------------------------
(* Properties of fetch_documents, checked under SpecFetch *)

\* the row has a value in the id column and in the text column
HasBoth(row) == row.id /= Null /\ row.text /= Null

\* C13: fetch_documents skips only the rows that lack a value in the id
\* column or the text column; every other row gives one document, in row
\* order, with the string forms of the two values and the remaining columns
\* as metadata.
C13_OnlyMissingSkipped ==
    pc = "fetched" =>
        LET kept == SelectSeq(result_data, HasBoth) IN
        /\ Len(documents) = Len(kept)
        /\ \A i \in 1..Len(kept) :
            /\ documents[i].id = Str(PyStr(kept[i].id))
            /\ documents[i].text = PyStr(kept[i].text)
            /\ documents[i].metadata = kept[i].rest

====
